---- MODULE Spec2Model ----
(***************************************************************************)
(* Model of proptest-arbitrary-adapter (src/src/lib.rs): ArbStrategy and   *)
(* ArbValueTree, the glue that turns an arbitrary::Arbitrary decoder into  *)
(* a proptest Strategy whose value tree shrinks by truncating the byte     *)
(* buffer it was decoded from.                                             *)
(***************************************************************************)
EXTENDS Integers, Sequences, FiniteSets, TLC

VARIABLES
    dec,                \* the decodable type A (its Arbitrary implementation)
    max_local_rejects,  \* TestRunner config.max_local_rejects
    local_rejects,      \* TestRunner.local_rejects
    size,               \* ArbStrategy.size, None while no strategy exists
    pc,                 \* position of the driver
    outcome,            \* what the last new_tree call returned
    tree,               \* None or Some(ArbValueTree)
    rng,                \* the bytes the runner's RNG yields next
    draws,              \* buffers filled by fill_bytes in this new_tree call
    rejects,            \* reject_local calls made in this new_tree call
    only_rejected,      \* every buffer of this call so far failed with IncorrectFormat
    req,                \* the call that built the strategy and its arguments
    undone,             \* complicate() was called since the last simplify() that returned true
    seen,               \* what current() returned, if it was the last call on the tree
    log,                \* the last LogDepth simplify() and complicate() calls on the tree
    hist                \* what was decoded and counted over the life of the tree

vars == <<dec, max_local_rejects, local_rejects, size, pc,
          outcome, tree, rng, draws, rejects, only_rejected, req, undone, seen,
          log, hist>>

----------------------------------------------------------------------------
(* Bounds of the model *)

MaxSize == 2            \* largest buffer size new_tree is run with
MaxByte == 1            \* bytes range over 0..MaxByte
MaxWidth == 1           \* widest fixed part of a decodable type
MaxLocalRejects == 2    \* max_local_rejects of the runner's configuration
UsizeBits == 16         \* width of usize in the model
LogDepth == 3           \* calls remembered in log

Byte == 0..MaxByte
UsizeMax == 2^UsizeBits - 1

----------------------------------------------------------------------------
(* Option<T> as a sequence of length at most one *)

None == <<>>
Some(v) == <<v>>
IsSome(o) == Len(o) = 1
Unwrap(o) == o[1]

(* Result<A, arbitrary::Error> *)
Ok(v) == [ok |-> TRUE, val |-> v, err |-> "none"]
Err(e) == [ok |-> FALSE, val |-> <<>>, err |-> e]

----------------------------------------------------------------------------
(* The decodable type.  A decoder reads `width` bytes, and when `var` is   *)
(* set as many more as its first byte says (a length prefix).  When the    *)
(* input is shorter it either pads with zeros (arbitrary's fill_buffer,    *)
(* used by the derived implementations of Test and Rgb) or fails with      *)
(* `short`; a `nonzero` decoder rejects encodings that contain a zero byte *)
(* with IncorrectFormat (as the NonZero integers do).                      *)

ShortKinds == {"pad", "NotEnoughData", "IncorrectFormat"}

Decoders ==
    {d \in [width : 0..MaxWidth, var : BOOLEAN, short : ShortKinds,
            nonzero : BOOLEAN] :
        (d.width = 0 /\ ~d.var) => (d.short = "pad" /\ ~d.nonzero)}

\* the first n bytes of s, padded with zeros
Padded(s, n) == [i \in 1..n |-> IF i <= Len(s) THEN s[i] ELSE 0]

\* the number of bytes the decoder reads from s
Need(d, s) == d.width + (IF d.var /\ Len(s) >= 1 THEN s[1] ELSE 0)

\* A::arbitrary(&mut Unstructured::new(s))
Arbitrary(d, s) ==
    LET n == Need(d, s)
    IN  IF Len(s) < n /\ d.short # "pad" THEN Err(d.short)
        ELSE IF d.nonzero /\ \E i \in 1..n : Padded(s, n)[i] = 0
             THEN Err("IncorrectFormat")
             ELSE Ok(Padded(s, n))

----------------------------------------------------------------------------
(* ArbValueTree *)

\* &bytes[0..n]; slicing past the end panics
SliceInRange(bytes, n) == n <= Len(bytes)
Slice(bytes, n) == SubSeq(bytes, 1, n)

gen_one_with_size(d, bytes, n) ==
    IF SliceInRange(bytes, n) THEN Arbitrary(d, Slice(bytes, n))
    ELSE Err("panic")

\* construction that decodes one byte less than the buffer holds
ArbValueTree_new_short(d, bytes) ==
    LET next == Len(bytes)
        curr == gen_one_with_size(d, bytes, IF next > 0 THEN next - 1 ELSE 0)
    IN  IF curr.ok
        THEN [ok |-> TRUE, err |-> "none",
              tree |-> Some([bytes |-> bytes, prev |-> None,
                             curr |-> curr.val, next |-> next])]
        ELSE [ok |-> FALSE, err |-> curr.err, tree |-> None]

\* construction that starts the cursor one past the end of the buffer
ArbValueTree_new_cursor_past_end(d, bytes) ==
    LET next == Len(bytes)
        curr == gen_one_with_size(d, bytes, next)
    IN  IF curr.ok
        THEN [ok |-> TRUE, err |-> "none",
              tree |-> Some([bytes |-> bytes, prev |-> None,
                             curr |-> curr.val, next |-> next + 1])]
        ELSE [ok |-> FALSE, err |-> curr.err, tree |-> None]

\* construction that fills the undo slot with the value it decoded
ArbValueTree_new_with_undo(d, bytes) ==
    LET next == Len(bytes)
        curr == gen_one_with_size(d, bytes, next)
    IN  IF curr.ok
        THEN [ok |-> TRUE, err |-> "none",
              tree |-> Some([bytes |-> bytes, prev |-> Some(curr.val),
                             curr |-> curr.val, next |-> next])]
        ELSE [ok |-> FALSE, err |-> curr.err, tree |-> None]

ArbValueTree_new(d, bytes) ==
    LET next == Len(bytes)
        curr == gen_one_with_size(d, bytes, next)
    IN  IF curr.ok
        THEN [ok |-> TRUE, err |-> "none",
              tree |-> Some([bytes |-> bytes, prev |-> None,
                             curr |-> curr.val, next |-> next])]
        ELSE [ok |-> FALSE, err |-> curr.err, tree |-> None]

\* current that hands out the undo value while there is one
current_prefers_prev(t) == IF IsSome(t.prev) THEN Unwrap(t.prev) ELSE t.curr

current(t) == t.curr

\* simplify without the next == 0 early return
simplify_no_guard(d, t) ==
    LET t1 == [t EXCEPT !.next = t.next - 1]
        simpler == gen_one_with_size(d, t1.bytes, t1.next)
    IN  IF ~simpler.ok
        THEN [t |-> t1, ret |-> FALSE, panic |-> FALSE]
        ELSE [t |-> [t1 EXCEPT !.prev = Some(t1.curr), !.curr = simpler.val],
              ret |-> TRUE, panic |-> FALSE]

\* simplify that puts the cursor back when the decode fails
simplify_restores_cursor(d, t) ==
    IF t.next = 0 THEN [t |-> t, ret |-> FALSE, panic |-> FALSE]
    ELSE LET t1 == [t EXCEPT !.next = t.next - 1]
             simpler == gen_one_with_size(d, t1.bytes, t1.next)
         IN  IF ~simpler.ok
             THEN [t |-> t, ret |-> FALSE, panic |-> FALSE]
             ELSE [t |-> [t1 EXCEPT !.prev = Some(t1.curr),
                                    !.curr = simpler.val],
                   ret |-> TRUE, panic |-> FALSE]

\* simplify that keeps an undo value it already holds
simplify_keeps_older_prev(d, t) ==
    IF t.next = 0 THEN [t |-> t, ret |-> FALSE, panic |-> FALSE]
    ELSE LET t1 == [t EXCEPT !.next = t.next - 1]
             simpler == gen_one_with_size(d, t1.bytes, t1.next)
         IN  IF ~simpler.ok
             THEN [t |-> t1, ret |-> FALSE, panic |-> FALSE]
             ELSE [t |-> [t1 EXCEPT
                            !.prev = IF IsSome(t1.prev) THEN t1.prev
                                     ELSE Some(t1.curr),
                            !.curr = simpler.val],
                   ret |-> TRUE, panic |-> FALSE]

\* simplify that saves the undo value before it knows the decode succeeded
simplify_saves_early(d, t) ==
    IF t.next = 0 THEN [t |-> t, ret |-> FALSE, panic |-> FALSE]
    ELSE LET t1 == [t EXCEPT !.next = t.next - 1, !.prev = Some(t.curr)]
             simpler == gen_one_with_size(d, t1.bytes, t1.next)
         IN  IF ~simpler.ok
             THEN [t |-> t1, ret |-> FALSE, panic |-> FALSE]
             ELSE [t |-> [t1 EXCEPT !.curr = simpler.val],
                   ret |-> TRUE, panic |-> FALSE]

\* simplify that decodes before it lowers the cursor
simplify_decodes_before_decrement(d, t) ==
    IF t.next = 0 THEN [t |-> t, ret |-> FALSE, panic |-> FALSE]
    ELSE LET simpler == gen_one_with_size(d, t.bytes, t.next)
             t1 == [t EXCEPT !.next = t.next - 1]
         IN  IF ~simpler.ok
             THEN [t |-> t1, ret |-> FALSE, panic |-> FALSE]
             ELSE [t |-> [t1 EXCEPT !.prev = Some(t1.curr),
                                    !.curr = simpler.val],
                   ret |-> TRUE, panic |-> FALSE]

\* simplify that gives up the undo value when the decode fails
simplify_drops_undo(d, t) ==
    IF t.next = 0 THEN [t |-> t, ret |-> FALSE, panic |-> FALSE]
    ELSE LET t1 == [t EXCEPT !.next = t.next - 1]
             simpler == gen_one_with_size(d, t1.bytes, t1.next)
         IN  IF ~simpler.ok
             THEN [t |-> [t1 EXCEPT !.prev = None], ret |-> FALSE,
                   panic |-> FALSE]
             ELSE [t |-> [t1 EXCEPT !.prev = Some(t1.curr),
                                    !.curr = simpler.val],
                   ret |-> TRUE, panic |-> FALSE]

\* simplify that decodes one byte less than the cursor says
simplify_decodes_shorter(d, t) ==
    IF t.next = 0 THEN [t |-> t, ret |-> FALSE, panic |-> FALSE]
    ELSE LET t1 == [t EXCEPT !.next = t.next - 1]
             simpler == gen_one_with_size(d, t1.bytes,
                                          IF t1.next > 0 THEN t1.next - 1
                                          ELSE 0)
         IN  IF ~simpler.ok
             THEN [t |-> t1, ret |-> FALSE, panic |-> FALSE]
             ELSE [t |-> [t1 EXCEPT !.prev = Some(t1.curr),
                                    !.curr = simpler.val],
                   ret |-> TRUE, panic |-> FALSE]

\* the tree after the call, the returned bool, and whether the call panicked
simplify(d, t) ==
    IF t.next = 0 THEN [t |-> t, ret |-> FALSE, panic |-> FALSE]
    ELSE LET t1 == [t EXCEPT !.next = t.next - 1]
             simpler == gen_one_with_size(d, t1.bytes, t1.next)
         IN  IF simpler.err = "panic"
             THEN [t |-> t1, ret |-> FALSE, panic |-> TRUE]
             ELSE IF ~simpler.ok
             THEN [t |-> t1, ret |-> FALSE, panic |-> FALSE]
             ELSE [t |-> [t1 EXCEPT !.prev = Some(t1.curr),
                                    !.curr = simpler.val],
                   ret |-> TRUE, panic |-> FALSE]

\* complicate that reads prev without taking it
complicate_keeps_prev(t) ==
    IF IsSome(t.prev)
    THEN [t |-> [t EXCEPT !.curr = Unwrap(t.prev)], ret |-> TRUE]
    ELSE [t |-> t, ret |-> FALSE]

\* complicate that moves the cursor back to the length of the restored value
complicate_restores_cursor(t) ==
    IF IsSome(t.prev)
    THEN [t |-> [t EXCEPT !.curr = Unwrap(t.prev), !.prev = None,
                          !.next = t.next + 1],
          ret |-> TRUE]
    ELSE [t |-> t, ret |-> FALSE]

\* complicate that swaps curr and prev, so that the undo can be redone
complicate_swaps(t) ==
    IF IsSome(t.prev)
    THEN [t |-> [t EXCEPT !.curr = Unwrap(t.prev), !.prev = Some(t.curr)],
          ret |-> TRUE]
    ELSE [t |-> t, ret |-> FALSE]

complicate(t) ==
    IF IsSome(t.prev)
    THEN [t |-> [t EXCEPT !.curr = Unwrap(t.prev), !.prev = None], ret |-> TRUE]
    ELSE [t |-> t, ret |-> FALSE]

----------------------------------------------------------------------------
(* ArbStrategy and the sizing helpers *)

ArbStrategy_new(n) == n

arb_sized(n) == ArbStrategy_new(n)

\* usize multiplication: [panics, value]
Mul(a, b, checks) ==
    IF a * b > UsizeMax
    THEN [panic |-> checks, val |-> (a * b) % (UsizeMax + 1)]
    ELSE [panic |-> FALSE, val |-> a * b]

Max(a, b) == IF a >= b THEN a ELSE b

\* arb::<A>() for a type whose size_hint(0) is (low, opt_high)
arb(low, opt_high, checks) ==
    IF IsSome(opt_high)
    THEN [panic |-> FALSE, size |-> arb_sized(Unwrap(opt_high))]
    ELSE LET m == Mul(2, low, checks)
         IN  [panic |-> m.panic, size |-> arb_sized(Max(m.val, 256))]

----------------------------------------------------------------------------
(* The TestRunner *)

\* run.rng().fill_bytes(&mut bytes): every byte of the buffer is overwritten
\* with the RNG's output r
fill_bytes(bytes, r) == [i \in 1..Len(bytes) |-> r[i]]

\* vec![0; n]
zeroed(n) == [i \in 1..n |-> 0]

\* run.reject_local(..): Err once max_local_rejects rejections were counted
reject_local(count, max) ==
    IF count >= max THEN [ok |-> FALSE, count |-> count]
    ELSE [ok |-> TRUE, count |-> count + 1]

\* new_tree that retries a rejected buffer without telling the runner
new_tree_iter_silent_retry(d, n, r, count, max) ==
    LET bytes == fill_bytes(zeroed(n), r)
        v == ArbValueTree_new(d, bytes)
    IN  IF v.ok
        THEN [flow |-> "return", outcome |-> "tree", tree |-> v.tree,
              count |-> count, rejected |-> FALSE]
        ELSE IF v.err = "IncorrectFormat"
        THEN [flow |-> "loop", outcome |-> "none", tree |-> None,
              count |-> count, rejected |-> FALSE]
        ELSE [flow |-> "return", outcome |-> v.err, tree |-> None,
              count |-> count, rejected |-> FALSE]

\* new_tree that retries after every decode failure
new_tree_iter_retries_all(d, n, r, count, max) ==
    LET bytes == fill_bytes(zeroed(n), r)
        v == ArbValueTree_new(d, bytes)
        rj == reject_local(count, max)
    IN  IF v.ok
        THEN [flow |-> "return", outcome |-> "tree", tree |-> v.tree,
              count |-> count, rejected |-> FALSE]
        ELSE [flow |-> IF rj.ok THEN "loop" ELSE "return",
              outcome |-> IF rj.ok THEN "none" ELSE "reject_abort",
              tree |-> None, count |-> rj.count, rejected |-> TRUE]

\* new_tree that returns every decode failure as a strategy error
new_tree_iter_no_retry(d, n, r, count, max) ==
    LET bytes == fill_bytes(zeroed(n), r)
        v == ArbValueTree_new(d, bytes)
    IN  IF v.ok
        THEN [flow |-> "return", outcome |-> "tree", tree |-> v.tree,
              count |-> count, rejected |-> FALSE]
        ELSE [flow |-> "return", outcome |-> v.err, tree |-> None,
              count |-> count, rejected |-> FALSE]

\* new_tree that drops the result of reject_local and draws again
new_tree_iter_ignores_abort(d, n, r, count, max) ==
    LET bytes == fill_bytes(zeroed(n), r)
        v == ArbValueTree_new(d, bytes)
        rj == reject_local(count, max)
    IN  IF v.ok
        THEN [flow |-> "return", outcome |-> "tree", tree |-> v.tree,
              count |-> count, rejected |-> FALSE]
        ELSE IF v.err = "IncorrectFormat"
        THEN [flow |-> "loop", outcome |-> "none", tree |-> None,
              count |-> rj.count, rejected |-> TRUE]
        ELSE [flow |-> "return", outcome |-> v.err, tree |-> None,
              count |-> count, rejected |-> FALSE]

\* one iteration of the loop of new_tree, run on a strategy of size n with
\* RNG output r and the runner's rejection counter at count
new_tree_iter(d, n, r, count, max) ==
    LET bytes == fill_bytes(zeroed(n), r)
        v == ArbValueTree_new(d, bytes)
        rj == reject_local(count, max)
    IN  IF v.ok
        THEN [flow |-> "return", outcome |-> "tree", tree |-> v.tree,
              count |-> count, rejected |-> FALSE]
        ELSE IF v.err = "IncorrectFormat"
        THEN [flow |-> IF rj.ok THEN "loop" ELSE "return",
              outcome |-> IF rj.ok THEN "none" ELSE "reject_abort",
              tree |-> None, count |-> rj.count, rejected |-> TRUE]
        ELSE [flow |-> "return", outcome |-> v.err, tree |-> None,
              count |-> count, rejected |-> FALSE]

----------------------------------------------------------------------------
(* Inputs *)

\* size hints (low, opt_high) a decodable type may report
HintLows == {0, 4, 127, 128, 129, (UsizeMax + 1) \div 2 - 1,
             (UsizeMax + 1) \div 2, UsizeMax}
HintHighs == {None} \cup {Some(h) : h \in (0..MaxSize) \cup {10, 255, 256, 300, UsizeMax}}
SizedArgs == (0..MaxSize) \cup {256, UsizeMax}

\* what the RNG can write into a buffer of n bytes
Buffers(n) == [1..n -> Byte]

Push(l, e) == IF Len(l) < LogDepth THEN Append(l, e) ELSE Append(Tail(l), e)

Call(op, ret, pre, u) ==
    [op |-> op, ret |-> ret, pre |-> pre, undone |-> u]

Request(fn, low, high, n) == [fn |-> fn, low |-> low, high |-> high, n |-> n]

----------------------------------------------------------------------------
(* The history of a tree: the prefix lengths decoded on it, in order, and   *)
(* whether each decode succeeded and what the call returned; the lengths curr (lc) and prev     *)
(* (lp) were decoded from; the value curr held before the last simplify()   *)
(* that returned true, while no complicate() was called since; and counts   *)
(* of the simplify() calls that returned true (simplified), of those that   *)
(* changed the tree (moved), and of the complicate() calls that returned    *)
(* true once the cursor had been moved len(bytes) times (late_undos).       *)

NoHistory ==
    [decodes |-> <<>>, lc |-> None, lp |-> None, before |-> None,
     simplified |-> 0, moved |-> 0, late_undos |-> 0]

\* ArbValueTree::new decodes bytes[0..bytes.len()] and stores the value in curr
Constructed(bytes) ==
    [NoHistory EXCEPT !.decodes = <<[len |-> Len(bytes), ok |-> TRUE,
                                      ret |-> TRUE]>>,
                      !.lc = Some(Len(bytes))]

\* the prefix length simplify() passes to gen_one_with_size, if it gets there
simplify_decodes(t) == IF t.next = 0 THEN None ELSE Some(t.next - 1)

\* the history after simplify() was called on tree t and gave r
AfterSimplify(h, d, t, r) ==
    LET a == simplify_decodes(t)
        attempted == IsSome(a)
        decoded == attempted /\ r.ret
    IN  [h EXCEPT
           !.decodes = IF attempted
                       THEN Append(h.decodes,
                                   [len |-> Unwrap(a),
                                    ok |-> gen_one_with_size(d, t.bytes,
                                                             Unwrap(a)).ok,
                                    ret |-> r.ret])
                       ELSE h.decodes,
           !.lc = IF decoded THEN a ELSE h.lc,
           !.lp = IF decoded THEN h.lc ELSE h.lp,
           !.before = IF r.ret THEN Some(t.curr) ELSE h.before,
           !.simplified = IF r.ret THEN h.simplified + 1 ELSE h.simplified,
           !.moved = IF r.t # t THEN h.moved + 1 ELSE h.moved]

\* the history after complicate() was called on tree t and gave r
AfterComplicate(h, t, r) ==
    [h EXCEPT
       !.lc = IF r.ret /\ IsSome(h.lp) THEN h.lp ELSE h.lc,
       !.lp = IF r.ret THEN None ELSE h.lp,
       !.before = None,
       !.late_undos = IF r.ret /\ h.moved >= Len(t.bytes)
                      THEN h.late_undos + 1 ELSE h.late_undos]

----------------------------------------------------------------------------
Init ==
    /\ dec \in Decoders
    /\ max_local_rejects = MaxLocalRejects
    /\ local_rejects = 0
    /\ size = None
    /\ pc = "start"
    /\ outcome = "none"
    /\ tree = None
    /\ rng = <<>>
    /\ draws = 0
    /\ rejects = 0
    /\ only_rejected = TRUE
    /\ req = None
    /\ undone = FALSE
    /\ seen = None
    /\ log = <<>>
    /\ hist = NoHistory

\* let s = arb::<A>(); the build has overflow checks on (an overflow panics)
\* or off (it wraps)
Arb ==
    /\ pc = "start"
    /\ \E low \in HintLows, opt_high \in HintHighs,
          overflow_checks \in BOOLEAN :
          LET r == arb(low, opt_high, overflow_checks)
          IN  /\ req' = Some(Request("arb", low, opt_high, 0))
              /\ IF r.panic
                 THEN /\ pc' = "panic"
                      /\ size' = size
                 ELSE /\ pc' = "ready"
                      /\ size' = Some(r.size)
    /\ UNCHANGED <<dec, max_local_rejects, local_rejects,
                   outcome, tree, rng, draws, rejects, only_rejected, undone,
                   seen, log, hist>>

\* let s = arb_sized::<A>(n);
ArbSized ==
    /\ pc = "start"
    /\ \E n \in SizedArgs :
          /\ req' = Some(Request("arb_sized", 0, None, n))
          /\ size' = Some(arb_sized(n))
    /\ pc' = "ready"
    /\ UNCHANGED <<dec, max_local_rejects, local_rejects,
                   outcome, tree, rng, draws, rejects, only_rejected, undone,
                   seen, log, hist>>

\* s.new_tree(&mut run) is entered, with the RNG in some state
NewTreeCall ==
    /\ pc = "ready"
    /\ Unwrap(size) <= MaxSize
    /\ pc' = "loop"
    /\ rng' \in Buffers(Unwrap(size))
    /\ req' = None
    /\ UNCHANGED <<dec, max_local_rejects, local_rejects,
                   size, outcome, tree, draws, rejects, only_rejected, undone,
                   seen, log, hist>>

\* one iteration of the loop of new_tree
NewTreeIter ==
    /\ pc = "loop"
    /\ LET it == new_tree_iter(dec, Unwrap(size), rng, local_rejects,
                               max_local_rejects)
       IN  /\ draws' = draws + 1
           /\ rejects' = IF it.rejected THEN rejects + 1 ELSE rejects
           /\ only_rejected' =
                 (only_rejected /\ Arbitrary(dec, rng) = Err("IncorrectFormat"))
           /\ local_rejects' = it.count
           /\ tree' = it.tree
           /\ outcome' = it.outcome
           /\ hist' = IF IsSome(it.tree) THEN Constructed(rng) ELSE NoHistory
           /\ IF it.flow = "loop"
              THEN /\ pc' = "loop"
                   /\ rng' \in Buffers(Unwrap(size))
              ELSE /\ pc' = "returned"
                   /\ rng' = <<>>
    /\ UNCHANGED <<dec, max_local_rejects, size, req, undone,
                   seen, log>>

\* the driver holds a tree: new_tree has just returned it, or it is shrinking
HasTree == pc \in {"returned", "shrinking"} /\ outcome = "tree"
T == Unwrap(tree)

\* a call on the tree; the counters of the new_tree call that built it are
\* dropped
Shrinking ==
    /\ draws' = 0
    /\ rejects' = 0
    /\ only_rejected' = TRUE
    /\ UNCHANGED <<dec, max_local_rejects, local_rejects,
                   size, outcome, rng, req>>

Current ==
    /\ HasTree
    /\ pc' = "shrinking"
    /\ seen' = Some(current(T))
    /\ UNCHANGED <<tree, undone, log, hist>>
    /\ Shrinking

Simplify ==
    /\ HasTree
    /\ LET r == simplify(dec, T)
       IN  /\ tree' = Some(r.t)
           /\ pc' = IF r.panic THEN "panic" ELSE "shrinking"
           /\ undone' = IF r.ret THEN FALSE ELSE undone
           /\ log' = Push(log, Call("simplify", r.ret, T, undone))
           /\ hist' = AfterSimplify(hist, dec, T, r)
    /\ seen' = None
    /\ Shrinking

Complicate ==
    /\ HasTree
    /\ pc' = "shrinking"
    /\ LET r == complicate(T)
       IN  /\ tree' = Some(r.t)
           /\ undone' = TRUE
           /\ log' = Push(log, Call("complicate", r.ret, T, undone))
           /\ hist' = AfterComplicate(hist, T, r)
    /\ seen' = None
    /\ Shrinking

\* the result of new_tree, and the tree with it, is dropped; the strategy and
\* the runner can be used for another call
Drop ==
    /\ pc \in {"returned", "shrinking"}
    /\ pc' = "ready"
    /\ outcome' = "none"
    /\ tree' = None
    /\ draws' = 0
    /\ rejects' = 0
    /\ only_rejected' = TRUE
    /\ undone' = FALSE
    /\ seen' = None
    /\ log' = <<>>
    /\ hist' = NoHistory
    /\ UNCHANGED <<dec, max_local_rejects, local_rejects,
                   size, rng, req>>

Next ==
    \/ Arb
    \/ ArbSized
    \/ NewTreeCall
    \/ NewTreeIter
    \/ Current
    \/ Simplify
    \/ Complicate
    \/ Drop

Spec == Init /\ [][Next]_vars

----------------------------------------------------------------------------
(* The calls remembered in log *)

NCalls == Len(log)
\* the tree as call i left it
Post(i) == IF i < NCalls THEN log[i + 1].pre ELSE T
Last == log[NCalls]

IsCall(i, op) == log[i].op = op
\* decode(bytes[0..n]) of tree t
Decode(t, n) == Arbitrary(dec, Slice(t.bytes, n))

----------------------------------------------------------------------------
\* C1: right after a simplify() that returned true, complicate() returns true
\* and current() is again what it was before that simplify(); a second
\* complicate() right after it returns false and leaves current() unchanged.
C1_SingleLevelUndo ==
    \A i \in 1..(NCalls - 1) :
        (IsCall(i, "simplify") /\ log[i].ret /\ IsCall(i + 1, "complicate")) =>
            /\ log[i + 1].ret
            /\ current(Post(i + 1)) = current(log[i].pre)
            /\ (i + 2 <= NCalls /\ IsCall(i + 2, "complicate")) =>
                  /\ ~log[i + 2].ret
                  /\ current(Post(i + 2)) = current(log[i + 2].pre)

\* a simplify() that changed the value, undone, and a second complicate()
C1_Witness ==
    /\ 3 <= NCalls
    /\ IsCall(NCalls - 2, "simplify") /\ log[NCalls - 2].ret
    /\ IsCall(NCalls - 1, "complicate") /\ IsCall(NCalls, "complicate")
    /\ current(log[NCalls - 1].pre) # current(log[NCalls - 2].pre)
    /\ current(T) = current(log[NCalls - 2].pre)

\* C2: a complicate() called when complicate() was already called since the
\* last simplify() that returned true returns false, whatever the earlier one
\* returned and whatever current() and failed simplify() calls came between.
C2_SecondComplicateFails ==
    \A i \in 1..NCalls :
        (IsCall(i, "complicate") /\ log[i].undone) => ~log[i].ret

\* complicate() true, a simplify() that returned false, complicate() again
C2_Witness ==
    /\ 3 <= NCalls
    /\ IsCall(NCalls - 2, "complicate") /\ log[NCalls - 2].ret
    /\ IsCall(NCalls - 1, "simplify") /\ ~log[NCalls - 1].ret
    /\ log[NCalls - 1].pre.next > 0
    /\ IsCall(NCalls, "complicate") /\ Last.undone

\* C3: no call raises next, next never goes below 0, and a simplify() called
\* with next = 0 returns false and changes nothing.
C3_MonotoneCursor ==
    /\ tree # None => T.next >= 0
    /\ \A i \in 1..NCalls :
          /\ Post(i).next <= log[i].pre.next
          /\ Post(i).next >= 0
          /\ (IsCall(i, "simplify") /\ log[i].pre.next = 0) =>
                (~log[i].ret /\ Post(i) = log[i].pre)

\* the cursor was walked down to 0 and simplify() was called again
C3_Witness ==
    /\ 3 <= NCalls
    /\ IsCall(NCalls - 2, "simplify") /\ log[NCalls - 2].pre.next = 1
    /\ IsCall(NCalls - 1, "simplify") /\ log[NCalls - 1].pre.next = 0
    /\ IsCall(NCalls, "simplify") /\ T.next = 0

\* C4: a simplify() called with next > 0 whose decode of bytes[0..next-1]
\* fails returns false, leaves next decremented and curr, prev and bytes as
\* they were, and raises no error.
C4_UnproductiveStep ==
    \A i \in 1..NCalls :
        (/\ IsCall(i, "simplify")
         /\ log[i].pre.next > 0
         /\ ~Decode(log[i].pre, log[i].pre.next - 1).ok) =>
            /\ ~log[i].ret
            /\ Post(i) = [log[i].pre EXCEPT !.next = log[i].pre.next - 1]
            /\ pc # "panic"

\* a shrink step that failed with IncorrectFormat while an undo was pending
C4_Witness ==
    /\ NCalls >= 2
    /\ IsCall(NCalls, "simplify")
    /\ Last.pre.next > 0
    /\ Decode(Last.pre, Last.pre.next - 1).err = "IncorrectFormat"
    /\ IsSome(T.prev)

\* C5: a simplify() called with next > 0 whose decode of bytes[0..next-1]
\* succeeds returns true, lowers next by exactly 1, sets curr to the decode of
\* the unchanged buffer cut to the new next, and prev to the old curr.
C5_SuccessfulStep ==
    \A i \in 1..NCalls :
        (/\ IsCall(i, "simplify")
         /\ log[i].pre.next > 0
         /\ Decode(log[i].pre, log[i].pre.next - 1).ok) =>
            /\ log[i].ret
            /\ Post(i).next = log[i].pre.next - 1
            /\ Post(i).bytes = log[i].pre.bytes
            /\ Post(i).curr = Decode(log[i].pre, Post(i).next).val
            /\ Post(i).prev = Some(log[i].pre.curr)

\* a successful step that displaced an older, different undo value
C5_Witness ==
    /\ NCalls >= 2
    /\ IsCall(NCalls, "simplify") /\ Last.ret
    /\ IsSome(Last.pre.prev)
    /\ Unwrap(Last.pre.prev) # Last.pre.curr
    /\ T.curr # Last.pre.curr

----------------------------------------------------------------------------
(* The running new_tree call *)

Rejects(b) == Arbitrary(dec, b) = Err("IncorrectFormat")
Accepts(b) == Arbitrary(dec, b).ok

\* the decoder accepts some buffer of the strategy's size
SomeAccepted == \E b \in Buffers(Unwrap(size)) : Accepts(b)

\* the call has drawn k buffers, all of which failed with IncorrectFormat
FailedFirst(k) == pc = "loop" /\ draws = k /\ only_rejected

\* new_tree returns the tree built from buffer k+1 after k+1 draws and k
\* rejections
ReturnsTreeAfter(k) ==
    /\ pc' = "returned"
    /\ outcome' = "tree"
    /\ draws' = k + 1
    /\ rejects' = k
    /\ tree' # None
    /\ Unwrap(tree').bytes = rng

\* the call rejects buffer k+1 and goes on to draw another
DrawsAgainAfter(k) ==
    /\ pc' = "loop"
    /\ draws' = k + 1
    /\ rejects' = k + 1
    /\ only_rejected'

\* C6 as stated, step by step: for every k, once the first k buffers have
\* failed with IncorrectFormat, new_tree returns the tree of buffer k+1 if
\* that one decodes, and otherwise, the success being yet to come, draws
\* again.
C6_Original ==
    [][\A k \in 0..(MaxLocalRejects + 1) :
          FailedFirst(k) =>
              /\ Accepts(rng) => ReturnsTreeAfter(k)
              /\ (Rejects(rng) /\ SomeAccepted) => DrawsAgainAfter(k)]_vars

\* C6 amended: the same, for every k for which reject_local accepts each of
\* the k rejections (the runner has counted fewer than max_local_rejects
\* local rejections before each of them); each of the k rejected buffers was
\* signalled as a local rejection.
C6_RejectionRetry ==
    /\ [](\A k \in 0..(MaxLocalRejects + 1) : FailedFirst(k) => rejects = k)
    /\ [][\A k \in 0..(MaxLocalRejects + 1) :
            FailedFirst(k) =>
                /\ Accepts(rng) => ReturnsTreeAfter(k)
                /\ (Rejects(rng) /\ local_rejects < max_local_rejects) =>
                      DrawsAgainAfter(k)]_vars

\* two rejected buffers, then a tree from the third
C6_Witness ==
    /\ pc = "returned"
    /\ outcome = "tree"
    /\ draws = 3
    /\ rejects = 2

\* C7: when the full-buffer decode fails with a kind other than
\* IncorrectFormat, new_tree returns that error at once, with no tree, no
\* rejection signalled and no further draw.
C7_FatalError ==
    [][(/\ pc = "loop"
        /\ ~Accepts(rng)
        /\ ~Rejects(rng)) =>
            /\ pc' = "returned"
            /\ outcome' = Arbitrary(dec, rng).err
            /\ tree' = None
            /\ draws' = draws + 1
            /\ rejects' = rejects
            /\ local_rejects' = local_rejects]_vars

\* a NotEnoughData failure on the second buffer, after one rejection
C7_Witness ==
    /\ pc = "returned"
    /\ outcome = "NotEnoughData"
    /\ tree = None
    /\ draws = 2
    /\ rejects = 1

\* the decoder fails with IncorrectFormat on every buffer of the strategy's size
AlwaysRejects == \A b \in Buffers(Unwrap(size)) : Rejects(b)

InNewTree == pc \in {"loop", "returned"}

\* C8 as stated: with a decoder that rejects every buffer, new_tree never
\* returns.
C8_Original ==
    (InNewTree /\ AlwaysRejects) => pc # "returned"

\* C8 amended: with a decoder that rejects every buffer, new_tree returns no
\* tree and no decode error; every draw is followed by a rejection, and the
\* call goes on as long as reject_local accepts it, and returns only with
\* the failure of reject_local, once the runner has counted max_local_rejects
\* rejections.  No call ever returns the IncorrectFormat failure itself.
C8_RejectLoop ==
    /\ outcome # "IncorrectFormat"
    /\ (InNewTree /\ AlwaysRejects) =>
          /\ tree = None
          /\ rejects = draws
          /\ only_rejected
          /\ pc = "loop" =>
                (outcome = "none" /\ local_rejects <= max_local_rejects)
          /\ pc = "returned" =>
                (outcome = "reject_abort" /\ local_rejects = max_local_rejects)

\* an always-rejecting decoder, stopped by reject_local at the third buffer
C8_Witness ==
    /\ pc = "returned"
    /\ AlwaysRejects
    /\ outcome = "reject_abort"
    /\ draws = 3

\* C9: construct(bytes) decodes the whole buffer; on success the tree has
\* next = len(bytes), curr = the decode of all of bytes, prev = None and the
\* buffer as given, and on failure there is the decode error and no tree.  A
\* tree returned by new_tree is the one constructed from the size bytes drawn.
C9_Construction ==
    /\ [](pc = "loop" =>
            LET r == Arbitrary(dec, rng)
                v == ArbValueTree_new(dec, rng)
            IN  IF r.ok
                THEN v = [ok |-> TRUE, err |-> "none",
                          tree |-> Some([bytes |-> rng,
                                         next |-> Len(rng),
                                         curr |-> r.val,
                                         prev |-> None])]
                ELSE v = [ok |-> FALSE, err |-> r.err, tree |-> None])
    /\ [][(pc = "loop" /\ pc' = "returned") =>
            IF Accepts(rng)
            THEN /\ outcome' = "tree"
                 /\ tree' = Some([bytes |-> rng,
                                  next |-> Unwrap(size),
                                  curr |-> Arbitrary(dec, rng).val,
                                  prev |-> None])
                 /\ Len(Unwrap(tree').bytes) = Unwrap(size)
            ELSE /\ outcome' # "tree"
                 /\ tree' = None]_vars

\* a fresh tree over a buffer of at least two bytes, not all of them zero
C9_Witness ==
    /\ pc = "returned"
    /\ outcome = "tree"
    /\ T.next >= 2
    /\ T.next = Unwrap(size)
    /\ T.curr = T.bytes
    /\ \E i \in 1..Len(T.bytes) : T.bytes[i] # 0

\* C10: arb() builds a strategy of size high when the size hint is
\* (low, Some(high)) and of size max(2*low, 256) when it is (low, None);
\* arb_sized(n) builds a strategy of size n.
C10_SizingHeuristic ==
    req # None =>
        LET r == Unwrap(req)
        IN  /\ pc # "panic"
            /\ size = Some(IF r.fn = "arb_sized" THEN r.n
                           ELSE IF IsSome(r.high) THEN Unwrap(r.high)
                           ELSE Max(2 * r.low, 256))

----------------------------------------------------------------------------
\* C11: whenever a tree exists, 0 <= next <= len(bytes); every prefix
\* length that construction or a simplify() has decoded, and the one the next
\* simplify() would decode, lies within the buffer, and no call on the tree
\* has faulted on the decrement of next or on the slicing.
C11_CursorInBuffer ==
    tree # None =>
        /\ 0 <= T.next /\ T.next <= Len(T.bytes)
        /\ pc # "panic"
        /\ \A i \in 1..Len(hist.decodes) :
              /\ 0 <= hist.decodes[i].len
              /\ SliceInRange(T.bytes, hist.decodes[i].len)
        /\ IsSome(simplify_decodes(T)) =>
              /\ 0 <= Unwrap(simplify_decodes(T))
              /\ SliceInRange(T.bytes, Unwrap(simplify_decodes(T)))
              /\ gen_one_with_size(dec, T.bytes,
                                   Unwrap(simplify_decodes(T))).err # "panic"
        /\ ~simplify(dec, T).panic

\* a buffer of MaxSize bytes whose every prefix was decoded, down to the
\* empty one
C11_Witness ==
    /\ HasTree
    /\ Len(T.bytes) = MaxSize
    /\ T.next = 0
    /\ Len(hist.decodes) = MaxSize + 1
    /\ hist.decodes[MaxSize + 1].len = 0

\* v is the decode of bytes[0..L] for a length L that was decoded on this
\* tree with success: len(bytes), decoded by the construction, or a smaller
\* one decoded by a simplify() that returned true
DecodedOnTree(v) ==
    \E i \in 1..Len(hist.decodes) :
        LET L == hist.decodes[i].len
        IN  /\ hist.decodes[i].ok
            /\ hist.decodes[i].ret
            /\ IF i = 1 THEN L = Len(T.bytes) ELSE L < Len(T.bytes)
            /\ Decode(T, L).ok
            /\ v = Decode(T, L).val

\* C12: whenever a tree exists, curr is the decode of bytes[0..L] for a
\* length L that was attempted on this tree and decoded: len(bytes), or a
\* smaller L reached by a simplify() that returned true; and so is prev
\* whenever it is Some.
C12_DecodedValues ==
    tree # None =>
        /\ DecodedOnTree(T.curr)
        /\ IsSome(T.prev) => DecodedOnTree(Unwrap(T.prev))

\* curr and prev both come from simplify() calls, of different lengths, and
\* differ from each other and from the value first constructed
C12_Witness ==
    /\ HasTree
    /\ hist.simplified >= 2
    /\ IsSome(T.prev)
    /\ T.curr # Unwrap(T.prev)
    /\ T.curr # Decode(T, Len(T.bytes)).val
    /\ Unwrap(T.prev) # Decode(T, Len(T.bytes)).val

\* C13 as stated: prev holds a value only if the most recent simplify() or
\* complicate() call on the tree was a simplify() that returned true; prev
\* is None right after the construction and right after every complicate().
C13_Original ==
    tree # None =>
        /\ IsSome(T.prev) =>
              (NCalls >= 1 /\ IsCall(NCalls, "simplify") /\ Last.ret)
        /\ NCalls = 0 => T.prev = None
        /\ \A i \in 1..NCalls : IsCall(i, "complicate") => Post(i).prev = None

\* C13 amended: prev holds a value only if a simplify() on the tree has
\* returned true and complicate() has not been called since; simplify()
\* calls that returned false since then leave it.  prev is None right after
\* the construction and right after every complicate().
C13_UndoSlot ==
    tree # None =>
        /\ IsSome(T.prev) => (hist.simplified >= 1 /\ ~undone)
        /\ NCalls = 0 => T.prev = None
        /\ \A i \in 1..NCalls : IsCall(i, "complicate") => Post(i).prev = None

\* prev still holds a value after two simplify() calls that returned false
C13_Witness ==
    /\ 3 <= NCalls
    /\ IsCall(NCalls - 2, "simplify") /\ log[NCalls - 2].ret
    /\ IsCall(NCalls - 1, "simplify") /\ ~log[NCalls - 1].ret
    /\ IsCall(NCalls, "simplify") /\ ~Last.ret
    /\ IsSome(T.prev)

\* what is left to do on tree t: two for every byte the cursor can still
\* give up, one for a pending undo
Measure(t) == 2 * t.next + (IF IsSome(t.prev) THEN 1 ELSE 0)

\* neither simplify() nor complicate() returns true or changes tree t
Exhausted(t) ==
    /\ ~simplify(dec, t).ret /\ simplify(dec, t).t = t
    /\ ~complicate(t).ret /\ complicate(t).t = t

\* C14: on a tree over n bytes, whatever the order of the simplify() and
\* complicate() calls, at most n simplify() calls change the tree and at
\* most n return true; once n have changed it every simplify() returns
\* false and changes nothing, and at most one complicate() returns true from
\* then on.  Every call that returns true or changes the tree lowers
\* Measure, no call raises it, and it is never negative: so after finitely
\* many such calls the tree is one on which both operations return false.
C14_ShrinkingTerminates ==
    tree # None =>
        /\ hist.moved <= Len(T.bytes)
        /\ hist.simplified <= Len(T.bytes)
        /\ hist.late_undos <= 1
        /\ hist.moved = Len(T.bytes) =>
              (~simplify(dec, T).ret /\ simplify(dec, T).t = T)
        /\ (hist.moved = Len(T.bytes) /\ hist.late_undos = 1) => Exhausted(T)
        /\ Measure(T) >= 0
        /\ Measure(T) = 0 => Exhausted(T)
        /\ \A i \in 1..NCalls :
              /\ Measure(Post(i)) <= Measure(log[i].pre)
              /\ (log[i].ret \/ Post(i) # log[i].pre) =>
                    Measure(Post(i)) < Measure(log[i].pre)

\* every byte of a buffer of MaxSize bytes was given up by a simplify() that
\* returned true, and the last of them was undone: nothing is left to try
C14_Witness ==
    /\ HasTree
    /\ Len(T.bytes) = MaxSize
    /\ hist.moved = MaxSize
    /\ hist.simplified = MaxSize
    /\ hist.late_undos = 1
    /\ Exhausted(T)
    /\ IsCall(NCalls, "complicate") /\ ~Last.ret

\* C16: over the life of a tree and any order of simplify() and complicate()
\* calls, no prefix length is decoded twice: len(bytes) is decoded by the
\* construction and each later decode, made by a simplify(), is of a length
\* smaller than every one before it.  The cursor stays at the last length
\* decoded: a failed decode leaves it lowered and complicate() leaves it
\* alone.
C16_NoLengthTwice ==
    tree # None =>
        LET ds == hist.decodes
        IN  /\ Len(ds) >= 1
            /\ ds[1].len = Len(T.bytes)
            /\ \A i, j \in 1..Len(ds) : i # j => ds[i].len # ds[j].len
            /\ \A i \in 2..Len(ds) : ds[i].len < ds[i - 1].len
            /\ Len(ds) <= Len(T.bytes) + 1
            /\ T.next = ds[Len(ds)].len
            /\ \A i \in 1..NCalls :
                  /\ IsCall(i, "complicate") =>
                        Post(i).next = log[i].pre.next
                  /\ (IsCall(i, "simplify") /\ ~log[i].ret
                         /\ log[i].pre.next > 0) =>
                        Post(i).next = log[i].pre.next - 1

\* a decode that failed, a complicate(), and a simplify() that went on from
\* the lowered cursor, until every length of a MaxSize buffer was decoded
C16_Witness ==
    /\ 3 <= NCalls
    /\ IsCall(NCalls - 2, "simplify") /\ ~log[NCalls - 2].ret
    /\ log[NCalls - 2].pre.next > 0
    /\ IsCall(NCalls - 1, "complicate")
    /\ IsCall(NCalls, "simplify") /\ Last.pre.next > 0
    /\ Len(hist.decodes) = MaxSize + 1

\* C17: current() changes no field of the tree and returns a value equal to
\* curr; no simplify() or complicate() changes bytes; complicate() never
\* changes next, and a complicate() that returns false changes no field.
C17_Frame ==
    /\ [](\A i \in 1..NCalls :
            /\ Post(i).bytes = log[i].pre.bytes
            /\ IsCall(i, "complicate") =>
                  /\ Post(i).next = log[i].pre.next
                  /\ ~log[i].ret => Post(i) = log[i].pre)
    /\ [](seen # None => (tree # None /\ Unwrap(seen) = T.curr))
    /\ [][(HasTree /\ seen' # None) =>
            (tree' = tree /\ seen' = Some(T.curr))]_vars

\* current() was called on a tree with a pending undo of a different value,
\* after a complicate() that returned false on it
C17_Witness ==
    /\ seen # None
    /\ IsSome(T.prev)
    /\ Unwrap(T.prev) # T.curr
    /\ 3 <= NCalls
    /\ IsCall(NCalls - 2, "complicate") /\ ~log[NCalls - 2].ret
    /\ T.bytes = log[NCalls - 2].pre.bytes

\* C18: after a simplify() that returned true, followed by any number of
\* simplify() calls that returned false and by no complicate(), prev is
\* still Some and holds the value current() gave before that simplify(); the
\* next complicate() returns true and makes it current() again.
C18_UndoSurvives ==
    (tree # None /\ hist.before # None) =>
        /\ IsSome(T.prev)
        /\ T.prev = hist.before
        /\ complicate(T).ret
        /\ current(complicate(T).t) = Unwrap(hist.before)
        /\ (NCalls >= 1 /\ IsCall(NCalls, "simplify") /\ ~Last.ret) =>
              (IsSome(Last.pre.prev) /\ T.prev = Last.pre.prev)

\* two simplify() calls that returned false, then a complicate() that
\* brought back a different value
C18_Witness ==
    /\ 3 <= NCalls
    /\ IsCall(NCalls - 2, "simplify") /\ ~log[NCalls - 2].ret
    /\ IsCall(NCalls - 1, "simplify") /\ ~log[NCalls - 1].ret
    /\ IsCall(NCalls, "complicate") /\ Last.ret
    /\ T.curr # Last.pre.curr

\* the prefix lengths curr and prev were decoded from
Lc == Unwrap(hist.lc)
Lp == Unwrap(hist.lp)

\* C19: whenever a tree exists, with Lc the prefix length curr was decoded
\* from and Lp the one prev was decoded from, next <= Lc <= len(bytes), and
\* Lc < Lp <= len(bytes) whenever prev is Some.  Lc = next right after the
\* construction and right after a simplify() that returned true; Lc > next
\* right after a complicate() that returned true.
C19_PrefixOrdering ==
    tree # None =>
        /\ IsSome(hist.lc)
        /\ Decode(T, Lc).ok /\ T.curr = Decode(T, Lc).val
        /\ IsSome(T.prev) <=> IsSome(hist.lp)
        /\ IsSome(T.prev) =>
              /\ Decode(T, Lp).ok /\ Unwrap(T.prev) = Decode(T, Lp).val
              /\ Lc < Lp /\ Lp <= Len(T.bytes)
        /\ T.next <= Lc /\ Lc <= Len(T.bytes)
        /\ NCalls = 0 => Lc = T.next
        /\ (NCalls >= 1 /\ IsCall(NCalls, "simplify") /\ Last.ret) =>
              Lc = T.next
        /\ (NCalls >= 1 /\ IsCall(NCalls, "complicate") /\ Last.ret) =>
              Lc > T.next

\* a complicate() brought back a value decoded from two bytes more than the
\* cursor stands at
C19_Witness ==
    /\ HasTree
    /\ NCalls >= 1
    /\ IsCall(NCalls, "complicate") /\ Last.ret
    /\ Lc >= T.next + 2
    /\ T.curr # Last.pre.curr

\* the reject_local call the running new_tree call would make now fails
RejectFails == ~reject_local(local_rejects, max_local_rejects).ok

\* C20: when the buffer drawn fails with IncorrectFormat and reject_local
\* returns a failure, new_tree returns that failure at once, with no tree
\* and without drawing another buffer; new_tree goes round its loop again
\* only after an IncorrectFormat failure for which reject_local returned
\* success.
C20_RejectionAbort ==
    [][/\ (pc = "loop" /\ Rejects(rng) /\ RejectFails) =>
              /\ pc' = "returned"
              /\ outcome' = "reject_abort"
              /\ tree' = None
              /\ draws' = draws + 1
              /\ rejects' = rejects + 1
              /\ rng' = <<>>
       /\ (pc = "loop" /\ pc' = "loop") =>
              /\ Rejects(rng)
              /\ ~RejectFails
              /\ local_rejects' = local_rejects + 1]_vars

\* a call that was aborted at its first buffer, by a runner that had already
\* counted max_local_rejects rejections, with a decoder that accepts others
C20_Witness ==
    /\ pc = "returned"
    /\ outcome = "reject_abort"
    /\ tree = None
    /\ draws = 1
    /\ rejects = 1
    /\ SomeAccepted

====
